---- MODULE Spec2Model ----
\* job-tracker (src/main.rs): a single-user store of job applications kept in
\* jobs.json, with a CSV importer and a PDF exporter.  Every invocation of the
\* program runs load_jobs, one command, and (when the command mutated the
\* collection) save_jobs.
EXTENDS Integers, Sequences, FiniteSets, TLC

\* ------------------------------------------------------------------ bounds
MaxJobs == 3        \* largest collection the store commands build
MaxId == 3          \* largest id the store commands assign
MaxCsvRows == 3     \* most lines (header line included) in an imported file
MaxRows == 56       \* largest collection handed to the exporter
PatLen == 3         \* period of the answer pattern of an exported collection

\* ------------------------------------------------------------ plain values
\* Option<String>: None is the empty tuple, Some(s) the one-element tuple.
None == <<>>
Some(s) == <<s>>

\* Local::now().format("%Y-%m-%d") of the invocation (main.rs:77).
Today == "2026-11-02"

\* Arguments the store commands are run with.
Companies == {"Acme"}
Titles == {"Analyst"}
Dates == {None, Some("2024-01-01")}
Answers == {"Rejected"}

\* str::trim on the strings that occur as CSV fields.
trim(s) ==
    CASE s = " Beta " -> "Beta"
      [] s = " " -> ""
      [] OTHER -> s

\* u8::to_ascii_lowercase applied to every byte, on the strings that occur
\* as company or title.
to_ascii_lowercase(s) ==
    CASE s = "Acme" -> "acme"
      [] s = "Beta" -> "beta"
      [] s = "Gamma" -> "gamma"
      [] s = "Engineer" -> "engineer"
      [] s = "ENGINEER" -> "engineer"
      [] s = "Analyst" -> "analyst"
      [] s = "Company" -> "company"
      [] s = "Job Title" -> "job title"
      [] OTHER -> s

eq_lowering_one_side(a, b) == to_ascii_lowercase(a) = b

\* str::eq_ignore_ascii_case
eq_ignore_ascii_case(a, b) == to_ascii_lowercase(a) = to_ascii_lowercase(b)

\* struct Job (main.rs:12-20).
Job(id, company, title, date_submitted, docs_used, location, final_answer) ==
    [id |-> id, company |-> company, title |-> title,
     date_submitted |-> date_submitted, docs_used |-> docs_used,
     location |-> location, final_answer |-> final_answer]

\* ------------------------------------------------------------- CSV inputs
\* Lines of semicolon-delimited files, already split into fields.
RowHeader == <<"Company", "Job Title", "Date Submitted", "Documents Used", "Answer", "Ort">>
RowAcme == <<"Acme", "Engineer", "2024-01-01", "CV", "Rejected", "Berlin">>
RowAcmeCase == <<"acme", "ENGINEER", "2024-01-01", "CV", "", "Berlin">>
RowBetaBlank == <<" Beta ", "Engineer", "2024-01-01", "CV", " ", "Berlin">>
RowShort == <<"Gamma", "Engineer", "2024-01-01", "CV", "Offer">>

\* The lines the imported files are made of: a first line, which is the
\* file's header line, and the lines behind it.
CsvHeaders == {RowHeader, RowShort}
CsvRows == {RowAcme, RowAcmeCase, RowBetaBlank, RowShort}

RECURSIVE SeqsUpTo(_, _)
SeqsUpTo(S, n) ==
    IF n = 0 THEN {<<>>}
    ELSE LET shorter == SeqsUpTo(S, n - 1)
         IN shorter \cup {Append(q, x) : q \in {p \in shorter : Len(p) = n - 1}, x \in S}

\* A path given to import either names no readable file or a file of lines.
NoCsv == [exists |-> FALSE, rows |-> <<>>]
CsvFile(rows) == [exists |-> TRUE, rows |-> rows]
CsvFiles ==
    {NoCsv, CsvFile(<<>>)} \cup
    {CsvFile(<<h>> \o d) : h \in CsvHeaders, d \in SeqsUpTo(CsvRows, MaxCsvRows - 1)}

\* The files the import command is given between the other store commands.
CsvSamples ==
    {NoCsv,
     CsvFile(<<RowAcme>>),
     CsvFile(<<RowHeader, RowAcme, RowBetaBlank>>),
     CsvFile(<<RowHeader, RowAcmeCase, RowShort>>)}

\* ------------------------------------------------------------------ state
VARIABLES
    file,       \* jobs.json: [state: "absent" | "partial" | "ok", jobs]
    loaded,     \* what load_jobs returned to the last invocation
    jobs,       \* the last invocation's vector `jobs` when it ended
    last,       \* the last invocation: command, arguments, report, exit
    deleted,    \* ids that a delete command has removed so far
    exp         \* the exporter's position, cursor and drawn text

store_vars == <<file, loaded, jobs, last, deleted>>
vars == <<file, loaded, jobs, last, deleted, exp>>

\* ------------------------------------------------------------ the store
Absent == [state |-> "absent", jobs |-> <<>>]

\* load_jobs: no file and unparseable content both give an empty vector.
load_jobs(f) == IF f.state = "ok" THEN f.jobs ELSE <<>>

\* save_jobs: File::create truncates jobs.json, write_all then fills it.  A
\* process killed between the two leaves the truncated or half-written file.
save_jobs(js, killed) ==
    IF killed THEN [state |-> "partial", jobs |-> <<>>]
    ELSE [state |-> "ok", jobs |-> js]

Ids(js) == {js[i].id : i \in 1..Len(js)}

MaxOf(S) == IF S = {} THEN 0 ELSE CHOOSE m \in S : \A x \in S : x <= m

next_id_by_count(js) == Len(js) + 1

\* jobs.iter().map(|j| j.id).max().unwrap_or(0) + 1
next_id(js) == MaxOf(Ids(js)) + 1

InBounds(js) == Len(js) <= MaxJobs /\ \A i \in 1..Len(js) : js[i].id <= MaxId

\* The record of an invocation.  `saved` tells whether save_jobs was called,
\* `added` is the count import prints, `repeat` whether the invocation before
\* it was an import of the same file that ran to its end.
Ran(cmd, id, csv, report, exit, saved, added) ==
    [cmd |-> cmd, id |-> id, csv |-> csv, report |-> report, exit |-> exit,
     saved |-> saved, added |-> added,
     repeat |-> cmd = "import" /\ last.cmd = "import" /\ last.csv = csv /\ last.exit = "ok"]

Exit(killed) == IF killed THEN "killed" ELSE "ok"
Report(killed, text) == IF killed THEN "none" ELSE text

\* Commands::Add
Add(company, title, docs, location, date, killed) ==
    LET l == load_jobs(file)
        date_submitted == IF date = None THEN Today ELSE date[1]
        id == next_id(l)
        job == Job(id, company, title, date_submitted, docs, location, None)
        js == Append(l, job)
    IN /\ InBounds(js)
       /\ loaded' = l
       /\ jobs' = js
       /\ file' = save_jobs(js, killed)
       /\ last' = Ran("add", id, NoCsv, Report(killed, "added"), Exit(killed), TRUE, 0)
       /\ UNCHANGED <<deleted, exp>>

find_by_position(js, id) == IF id <= Len(js) THEN id ELSE 0

\* jobs.iter_mut().find(|j| j.id == id): the first record with that id.
find(js, id) ==
    IF id \in Ids(js)
    THEN CHOOSE i \in 1..Len(js) : js[i].id = id /\ \A k \in 1..(i - 1) : js[k].id # id
    ELSE 0

\* Commands::Update
Update(id, answer, killed) ==
    LET l == load_jobs(file)
        i == find(l, id)
        js == IF i = 0 THEN l ELSE [l EXCEPT ![i].final_answer = Some(answer)]
    IN /\ i = 0 => ~killed
       /\ loaded' = l
       /\ jobs' = js
       /\ file' = IF i = 0 THEN file ELSE save_jobs(js, killed)
       /\ last' = IF i = 0
                  THEN Ran("update", id, NoCsv, "not_found", "ok", FALSE, 0)
                  ELSE Ran("update", id, NoCsv, Report(killed, "updated"), Exit(killed), TRUE, 0)
       /\ UNCHANGED <<deleted, exp>>

\* jobs.retain(|j| j.id != id)
retain(js, id) == SelectSeq(js, LAMBDA j : j.id # id)

\* Commands::Delete
Delete(id, killed) ==
    LET l == load_jobs(file)
        js == retain(l, id)
        removed == Len(js) < Len(l)
    IN /\ ~removed => ~killed
       /\ loaded' = l
       /\ jobs' = js
       /\ file' = IF removed THEN save_jobs(js, killed) ELSE file
       /\ last' = IF removed
                  THEN Ran("delete", id, NoCsv, Report(killed, "deleted"), Exit(killed), TRUE, 0)
                  ELSE Ran("delete", id, NoCsv, "not_found", "ok", FALSE, 0)
       /\ deleted' = IF removed /\ ~killed THEN deleted \cup {id} ELSE deleted
       /\ UNCHANGED exp

\* Commands::List
List ==
    LET l == load_jobs(file)
    IN /\ loaded' = l
       /\ jobs' = l
       /\ last' = Ran("list", 0, NoCsv, IF l = <<>> THEN "no_jobs" ELSE "table", "ok", FALSE, 0)
       /\ UNCHANGED <<file, deleted, exp>>

\* ---------------------------------------------------------- CSV importer
\* rdr.records() of csv::ReaderBuilder::new().delimiter(b';').from_path(path):
\* the builder keeps its defaults has_headers = true and flexible = false, so
\* the first line is consumed as the header and is never yielded, and a line
\* whose field count differs from the first line's yields Err(UnequalLengths).
records(rows) ==
    IF Len(rows) = 0 THEN <<>>
    ELSE [k \in 1..(Len(rows) - 1) |->
            IF Len(rows[k + 1]) = Len(rows[1])
            THEN [ok |-> TRUE, record |-> rows[k + 1]]
            ELSE [ok |-> FALSE, record |-> <<>>]]

\* The duplicate check: some job has the company and the title, ignoring
\* ASCII case.
is_duplicate(js, company, title) ==
    \E i \in 1..Len(js) : /\ eq_ignore_ascii_case(js[i].company, company)
                          /\ eq_ignore_ascii_case(js[i].title, title)

\* if answer_raw.is_empty() { None } else { Some(answer_raw) }
final_answer_of(answer_raw) == IF answer_raw = "" THEN None ELSE Some(answer_raw)

\* The body of `for result in rdr.records()`, from result k on.  `result?`
\* leaves the function at the first Err, with the rows pushed so far still in
\* the caller's vector.
RECURSIVE import_loop(_, _, _, _)
import_loop(results, k, js, added_count) ==
    IF k > Len(results) THEN [ok |-> TRUE, jobs |-> js, added |-> added_count]
    ELSE IF ~results[k].ok THEN [ok |-> FALSE, jobs |-> js, added |-> added_count]
    ELSE LET record == results[k].record
         IN IF Len(record) < 6 THEN import_loop(results, k + 1, js, added_count)
            ELSE LET company == trim(record[1])
                     title == trim(record[2])
                     date_submitted == trim(record[3])
                     docs_used == trim(record[4])
                     answer_raw == trim(record[5])
                     location == trim(record[6])
                     job == Job(next_id(js), company, title, date_submitted,
                                docs_used, location, final_answer_of(answer_raw))
                 IN IF is_duplicate(js, company, title)
                    THEN import_loop(results, k + 1, js, added_count)
                    ELSE import_loop(results, k + 1, Append(js, job), added_count + 1)

\* import_from_csv: from_path fails when the file cannot be opened.
import_from_csv(csv, js) ==
    IF ~csv.exists THEN [ok |-> FALSE, jobs |-> js, added |-> 0]
    ELSE import_loop(records(csv.rows), 1, js, 0)

ImportSavingAnyway(csv, killed) ==
    LET l == load_jobs(file)
        r == import_from_csv(csv, l)
    IN /\ InBounds(r.jobs)
       /\ ~r.ok => ~killed
       /\ loaded' = l
       /\ jobs' = r.jobs
       /\ file' = save_jobs(r.jobs, killed)
       /\ last' = IF r.ok
                  THEN Ran("import", 0, csv, Report(killed, "imported"), Exit(killed), TRUE, r.added)
                  ELSE Ran("import", 0, csv, "import_failed", "ok", FALSE, 0)
       /\ UNCHANGED <<deleted, exp>>

\* Commands::Import
Import(csv, killed) ==
    LET l == load_jobs(file)
        r == import_from_csv(csv, l)
    IN /\ InBounds(r.jobs)
       /\ ~r.ok => ~killed
       /\ loaded' = l
       /\ jobs' = r.jobs
       /\ file' = IF r.ok THEN save_jobs(r.jobs, killed) ELSE file
       /\ last' = IF r.ok
                  THEN Ran("import", 0, csv, Report(killed, "imported"), Exit(killed), TRUE, r.added)
                  ELSE Ran("import", 0, csv, "import_failed", "ok", FALSE, 0)
       /\ UNCHANGED <<deleted, exp>>

\* ---------------------------------------------------------- PDF exporter
PageTop == 190          \* let mut y = 190.0
HeaderGap == 10         \* y -= 10.0 below a header
line_height == 6        \* let line_height = 6.0
RowMargin == 20         \* if y < 20.0, before a row and before a status line
StatsGap == 10          \* y -= 10.0, the space before the statistics
StatsMarginLow == RowMargin
StatsMargin == 40       \* if y < 40.0, before the statistics title
TitleGap == 8           \* y -= 8.0 below the statistics title

\* The exporter between runs.
ExpIdle ==
    [pc |-> "idle", jobs |-> <<>>, next |-> 0, page |-> 0, y |-> 0, draws |-> <<>>,
     total_jobs |-> 0, pending_count |-> 0, status_counts |-> [a \in {} |-> 0],
     todo |-> {}]

\* One line of text put on a page: the use_text calls that share one y.
Line(page, y, kind, label, value) ==
    [page |-> page, y |-> y, kind |-> kind, label |-> label, value |-> value]

\* draw_header
draw_header(page, y) == Line(page, y, "header", "ID Company Title Date Status", 0)

\* jobs.iter().filter(|j| j.final_answer.is_none()).count()
pending_count(js) == Cardinality({i \in 1..Len(js) : js[i].final_answer = None})

bump_overwriting(counts, ans) ==
    [a \in DOMAIN counts \cup {ans} |-> IF a = ans THEN 1 ELSE counts[a]]

\* *status_counts.entry(ans.clone()).or_insert(0) += 1
bump(counts, ans) ==
    IF ans \in DOMAIN counts THEN [counts EXCEPT ![ans] = @ + 1]
    ELSE [a \in DOMAIN counts \cup {ans} |-> IF a = ans THEN 1 ELSE counts[a]]

\* export_to_pdf up to the first header: the document is created, the font
\* is loaded and the header is drawn at the top of page 1.
ExportBegin ==
    /\ exp.pc = "start"
    /\ exp' = [exp EXCEPT !.pc = "rows", !.page = 1, !.next = 1,
                          !.draws = <<draw_header(1, PageTop)>>,
                          !.y = PageTop - HeaderGap]
    /\ UNCHANGED store_vars

\* File::open(font_path)? fails: nothing is drawn and nothing is written.
ExportFontMissing ==
    /\ exp.pc = "start"
    /\ exp' = [exp EXCEPT !.pc = "failed"]
    /\ UNCHANGED store_vars

ExportRowWithoutHeader ==
    /\ exp.pc = "rows"
    /\ exp.next <= Len(exp.jobs)
    /\ LET break == exp.y < RowMargin
           page == IF break THEN exp.page + 1 ELSE exp.page
           y == IF break THEN PageTop - HeaderGap ELSE exp.y
           job == exp.jobs[exp.next]
       IN exp' = [exp EXCEPT !.page = page, !.next = @ + 1,
                             !.draws = Append(@, Line(page, y, "row", "", job.id)),
                             !.y = y - line_height]
    /\ UNCHANGED store_vars

\* One turn of `for job in jobs`: the page break with its header, then the
\* row.
ExportRow ==
    /\ exp.pc = "rows"
    /\ exp.next <= Len(exp.jobs)
    /\ LET break == exp.y < RowMargin
           page == IF break THEN exp.page + 1 ELSE exp.page
           header == IF break THEN <<draw_header(page, PageTop)>> ELSE <<>>
           y == IF break THEN PageTop - HeaderGap ELSE exp.y
           job == exp.jobs[exp.next]
       IN exp' = [exp EXCEPT !.page = page, !.next = @ + 1,
                             !.draws = @ \o header \o <<Line(page, y, "row", "", job.id)>>,
                             !.y = y - line_height]
    /\ UNCHANGED store_vars

\* The rows are drawn: the space before the statistics, total_jobs,
\* pending_count and an empty status_counts.
ExportTally ==
    /\ exp.pc = "rows"
    /\ exp.next > Len(exp.jobs)
    /\ exp' = [exp EXCEPT !.pc = "tally", !.next = 1,
                          !.y = @ - StatsGap,
                          !.total_jobs = Len(exp.jobs),
                          !.pending_count = pending_count(exp.jobs),
                          !.status_counts = [a \in {} |-> 0]]
    /\ UNCHANGED store_vars

\* One turn of the second `for job in jobs`: a job with a final answer is
\* counted under that answer.
ExportCount ==
    /\ exp.pc = "tally"
    /\ exp.next <= Len(exp.jobs)
    /\ LET job == exp.jobs[exp.next]
       IN exp' = [exp EXCEPT !.next = @ + 1,
                             !.status_counts = IF job.final_answer = None THEN @
                                               ELSE bump(@, job.final_answer[1])]
    /\ UNCHANGED store_vars

\* The statistics table up to the pending line: the page break without a
\* header, the title, the total and the pending line.
ExportStats ==
    /\ exp.pc = "tally"
    /\ exp.next > Len(exp.jobs)
    /\ LET break == exp.y < StatsMargin
           page == IF break THEN exp.page + 1 ELSE exp.page
           y == IF break THEN PageTop ELSE exp.y
       IN exp' = [exp EXCEPT
                    !.pc = "statuses", !.page = page,
                    !.todo = DOMAIN exp.status_counts,
                    !.draws = @ \o <<Line(page, y, "title", "Statistics", 0),
                                     Line(page, y - TitleGap, "total",
                                          "Total Applications", exp.total_jobs),
                                     Line(page, y - TitleGap - line_height, "pending",
                                          "Pending", exp.pending_count)>>,
                    !.y = y - TitleGap - line_height - line_height]
    /\ UNCHANGED store_vars

\* One turn of `for (status, count) in status_counts`: a HashMap yields its
\* entries in any order.
ExportStatus ==
    /\ exp.pc = "statuses"
    /\ \E status \in exp.todo :
          LET break == exp.y < RowMargin
              page == IF break THEN exp.page + 1 ELSE exp.page
              y == IF break THEN PageTop ELSE exp.y
          IN exp' = [exp EXCEPT !.page = page, !.todo = @ \ {status},
                                !.draws = Append(@, Line(page, y, "status", status,
                                                         exp.status_counts[status])),
                                !.y = y - line_height]
    /\ UNCHANGED store_vars

\* doc.save(...File::create(output_path)?)?: the document is written, or the
\* output path cannot be written.
ExportSave ==
    /\ exp.pc = "statuses"
    /\ exp.todo = {}
    /\ \E written \in BOOLEAN : exp' = [exp EXCEPT !.pc = IF written THEN "done" ELSE "failed"]
    /\ UNCHANGED store_vars

\* ------------------------------------------------------- specifications
\* No jobs.json yet and no command run.
Init ==
    /\ file = Absent
    /\ loaded = <<>>
    /\ jobs = <<>>
    /\ last = [cmd |-> "none", id |-> 0, csv |-> NoCsv, report |-> "none", exit |-> "ok",
               saved |-> FALSE, added |-> 0, repeat |-> FALSE]
    /\ deleted = {}
    /\ exp = ExpIdle

Command(killed) ==
    \/ \E company \in Companies, title \in Titles, date \in Dates :
          Add(company, title, "CV", "Berlin", date, killed)
    \/ \E id \in 1..MaxId, answer \in Answers : Update(id, answer, killed)
    \/ \E id \in 1..MaxId : Delete(id, killed)
    \/ \E csv \in CsvSamples : Import(csv, killed)
    \/ (~killed /\ List)

\* Every invocation runs to its end.
Next == Command(FALSE)

Spec == Init /\ [][Next]_vars

\* An invocation may be killed while save_jobs is writing.
NextCrash == \E killed \in BOOLEAN : Command(killed)

SpecCrash == Init /\ [][NextCrash]_vars

\* Imports alone, over every file of at most MaxCsvRows lines.
NextImport == \E csv \in CsvFiles : Import(csv, FALSE)

SpecImport == Init /\ [][NextImport]_vars

\* The collections handed to the exporter: ids 1..n as n adds assign them,
\* final answers as updates set them, repeating with period PatLen.
AnswerOpts == {None, Some("Rejected"), Some("Offer")}

ExportJobs(n, pattern) ==
    [i \in 1..n |-> Job(i, "Acme", "Engineer", Today, "CV", "Berlin",
                        pattern[((i - 1) % PatLen) + 1])]

InitExport ==
    /\ \E n \in 0..MaxRows, pattern \in [1..PatLen -> AnswerOpts] :
          /\ file = [state |-> "ok", jobs |-> ExportJobs(n, pattern)]
          /\ loaded = ExportJobs(n, pattern)
          /\ jobs = ExportJobs(n, pattern)
          /\ exp = [ExpIdle EXCEPT !.pc = "start", !.jobs = ExportJobs(n, pattern)]
    /\ last = [cmd |-> "export", id |-> 0, csv |-> NoCsv, report |-> "none", exit |-> "ok",
               saved |-> FALSE, added |-> 0, repeat |-> FALSE]
    /\ deleted = {}

NextExport ==
    \/ ExportBegin
    \/ ExportFontMissing
    \/ ExportRow
    \/ ExportTally
    \/ ExportCount
    \/ ExportStats
    \/ ExportStatus
    \/ ExportSave

SpecExport == InitExport /\ [][NextExport]_vars

\* ------------------------------------------------- properties of the store
\* The records the last add or import pushed: those behind the loaded ones.
NewAt == (Len(loaded) + 1)..Len(jobs)
NewIds == {jobs[k].id : k \in NewAt}

Distinct(js) == \A i, k \in 1..Len(js) : i # k => js[i].id # js[k].id

\* C1: an id that was assigned and then removed by a delete command is never
\* assigned again to a record created by add or import.
C1_DeletedIdNeverReused ==
    last.cmd \in {"add", "import"} => NewIds \cap deleted = {}

\* C2: the ids of the collection and of the persisted file are pairwise
\* distinct, and every id assigned by add or by an accepted import row is
\* greater than every id in the collection at the moment it is assigned.
C2_IdsUniqueAndIncreasing ==
    /\ Distinct(jobs)
    /\ Distinct(load_jobs(file))
    /\ last.cmd \in {"add", "import"} =>
          \A k \in NewAt : \A i \in 1..(k - 1) : jobs[i].id < jobs[k].id

\* An import pushed two rows behind a collection that a delete had thinned.
C2_Witness ==
    /\ last.cmd = "import"
    /\ last.added = 2
    /\ loaded # <<>>
    /\ deleted # {}
    /\ file.state = "ok"
    /\ file.jobs = jobs

\* C3: an update or delete whose id matches no record leaves the collection
\* and the persisted file as they were, calls no save, and ends successfully
\* with the not-found report.
C3_NotFoundChangesNothing ==
    [][(last'.cmd \in {"update", "delete"} /\ last'.id \notin Ids(load_jobs(file))) =>
          /\ file' = file
          /\ jobs' = load_jobs(file)
          /\ ~last'.saved
          /\ last'.report = "not_found"
          /\ last'.exit = "ok"]_vars

\* A delete of an absent id ran against a collection that holds a larger and
\* a smaller id.
C3_Witness ==
    /\ last.cmd = "delete"
    /\ last.report = "not_found"
    /\ \E i, k \in 1..Len(jobs) : jobs[i].id < last.id /\ last.id < jobs[k].id
    /\ file.state = "ok"
    /\ file.jobs = jobs

\* The data lines of a file: every line behind the first.
DataRows(csv) == {csv.rows[k] : k \in 2..Len(csv.rows)}

Matches(job, row) ==
    /\ to_ascii_lowercase(job.company) = to_ascii_lowercase(trim(row[1]))
    /\ to_ascii_lowercase(job.title) = to_ascii_lowercase(trim(row[2]))

C5_FailedImportNotPersisted ==
    [][(last'.cmd = "import" /\ ~import_from_csv(last'.csv, load_jobs(file)).ok) =>
          /\ file' = file
          /\ ~last'.saved
          /\ last'.report = "import_failed"]_vars

\* An import failed after it had pushed a row behind a persisted collection.
C5_Witness ==
    /\ last.cmd = "import"
    /\ last.report = "import_failed"
    /\ loaded # <<>>
    /\ Len(jobs) > Len(loaded)
    /\ file.state = "ok"
    /\ file.jobs = loaded

\* C6: a load that runs after a save has started returns the complete
\* previous collection or the complete new one, also when the saving process
\* was killed between truncating the file and finishing the write.
C6_SaveIsAtomic ==
    last.saved => load_jobs(file) \in {loaded, jobs}

\* What the import would yield if every data row were read whatever its
\* field count.
every_row(rows) == [k \in 1..Len(rows) |-> [ok |-> TRUE, record |-> rows[k]]]

\* C9: a data row of fewer than 6 fields is skipped without failing the
\* import or touching the other rows, a data row of 6 fields becomes one
\* record mapped by position, and the single-row file
\* Acme;Engineer;2024-01-01;CV;Rejected;Berlin imported into an empty store
\* yields exactly one record, with finalAnswer "Rejected".
C9_ShortRowsSkippedRowsMapped ==
    (last.cmd = "import" /\ last.csv.exists) =>
        /\ (Len(last.csv.rows) >= 1 /\ Len(last.csv.rows[1]) = 6) =>
              /\ last.report = "imported"
              /\ jobs = import_loop(every_row(Tail(last.csv.rows)), 1, loaded, 0).jobs
        /\ (last.csv.rows = <<RowAcme>> /\ loaded = <<>>) =>
              /\ Len(jobs) = 1
              /\ jobs[1].final_answer = Some("Rejected")

\* ---------------------------------------------- properties of the exporter
DrawsOf(kind) == {i \in 1..Len(exp.draws) : exp.draws[i].kind = kind}
DrawsOn(page) == {i \in 1..Len(exp.draws) : exp.draws[i].page = page}
Pages == {exp.draws[i].page : i \in 1..Len(exp.draws)}
FirstOn(page) == exp.draws[CHOOSE i \in DrawsOn(page) : \A k \in DrawsOn(page) : i <= k]

\* The answers that are present in the exported collection.
AnswersSeen == {exp.jobs[i].final_answer[1] :
                   i \in {k \in 1..Len(exp.jobs) : exp.jobs[k].final_answer # None}}
WithAnswer(a) == {i \in 1..Len(exp.jobs) : exp.jobs[i].final_answer = Some(a)}
Pending == {i \in 1..Len(exp.jobs) : exp.jobs[i].final_answer = None}

RECURSIVE SumOfValues(_)
SumOfValues(I) ==
    IF I = {} THEN 0
    ELSE LET i == CHOOSE k \in I : TRUE IN exp.draws[i].value + SumOfValues(I \ {i})

\* C7: the statistics show the number of records as the total, the number of
\* records without a final answer as pending, and exactly one line for every
\* distinct answer, carrying the number of records with that answer; pending
\* plus the per-answer counts is the total.
C7_StatisticsCounts ==
    exp.pc = "done" =>
        /\ \E i \in DrawsOf("total") :
              DrawsOf("total") = {i} /\ exp.draws[i].value = Len(exp.jobs)
        /\ \E i \in DrawsOf("pending") :
              DrawsOf("pending") = {i} /\ exp.draws[i].value = Cardinality(Pending)
        /\ \A a \in AnswersSeen :
              \E i \in DrawsOf("status") :
                  /\ exp.draws[i].label = a
                  /\ exp.draws[i].value = Cardinality(WithAnswer(a))
                  /\ \A k \in DrawsOf("status") : exp.draws[k].label = a => k = i
        /\ \A i \in DrawsOf("status") : exp.draws[i].label \in AnswersSeen
        /\ Cardinality(Pending) + SumOfValues(DrawsOf("status")) = Len(exp.jobs)

\* An export of pending records and of two answers, one of them given to
\* several records.
C7_Witness ==
    /\ exp.pc = "done"
    /\ Cardinality(AnswersSeen) = 2
    /\ Pending # {}
    /\ \E a \in AnswersSeen : Cardinality(WithAnswer(a)) >= 2

C10_CursorWithinPage ==
    /\ \A i \in 1..Len(exp.draws) : RowMargin <= exp.draws[i].y /\ exp.draws[i].y <= PageTop
    /\ \A k \in 2..Len(exp.draws) :
          \/ exp.draws[k - 1].page < exp.draws[k].page
          \/ /\ exp.draws[k - 1].page = exp.draws[k].page
             /\ exp.draws[k - 1].y >= exp.draws[k].y
    /\ \A page \in Pages : Cardinality(DrawsOn(page) \cap DrawsOf("row")) <= 27

\* An export with a full page of 27 rows and a statistics title on the
\* lowest line that still leaves room for it.
C10_Witness ==
    /\ exp.pc = "done"
    /\ \E page \in Pages : Cardinality(DrawsOn(page) \cap DrawsOf("row")) = 27
    /\ \E i \in DrawsOf("title") : exp.draws[i].y < StatsMargin + line_height
    /\ \E i \in DrawsOf("status") : exp.draws[i].y < RowMargin + line_height

====
